---- MODULE Spec2Model ----
(***************************************************************************)
(* Model of the routem route-pattern compiler and matcher.                 *)
(*                                                                         *)
(* A Rust string is modelled as a sequence of one-character strings, so    *)
(* that the parser combinators, strip_prefix and split work on characters  *)
(* exactly as the code does.  Option<T> is [some |-> FALSE] or             *)
(* [some |-> TRUE, val |-> v]; Result<T, E> is [ok |-> TRUE, val |-> v] or *)
(* [ok |-> FALSE, err |-> e].                                              *)
(***************************************************************************)
EXTENDS Integers, Sequences, FiniteSets, TLC

VARIABLES pc, template, compiled, path, values, out, routes

vars == <<pc, template, compiled, path, values, out, routes>>

----------------------------------------------------------------------------
(* Characters and std helpers *)

Lower == {"a", "b", "c", "d", "e", "f", "g", "h", "i", "j", "k", "l", "m",
          "n", "o", "p", "q", "r", "s", "t", "u", "v", "w", "x", "y", "z"}

Upper == {"A", "B", "C", "D", "E", "F", "G", "H", "I", "J", "K", "L", "M",
          "N", "O", "P", "Q", "R", "S", "T", "U", "V", "W", "X", "Y", "Z"}

DigitChars == <<"0", "1", "2", "3", "4", "5", "6", "7", "8", "9">>

is_ascii_digit(c) == \E i \in 1..10 : DigitChars[i] = c

is_ascii_alphabetic(c) == c \in Lower \cup Upper

is_ascii_alphanumeric(c) == is_ascii_alphabetic(c) \/ is_ascii_digit(c)

is_hex_digit(c) ==
    \/ is_ascii_digit(c)
    \/ c \in {"a", "b", "c", "d", "e", "f", "A", "B", "C", "D", "E", "F"}

to_digit(c) == (CHOOSE i \in 1..10 : DigitChars[i] = c) - 1

None == [some |-> FALSE]

Some(v) == [some |-> TRUE, val |-> v]

Ok(v) == [ok |-> TRUE, val |-> v]

Err(e) == [ok |-> FALSE, err |-> e]

Drop(s, n) == SubSeq(s, n + 1, Len(s))

starts_with(s, p) == Len(s) >= Len(p) /\ SubSeq(s, 1, Len(p)) = p

(* str::strip_prefix('/') followed by unwrap_or(path) *)
strip_prefix(p) == IF starts_with(p, <<"/">>) THEN Drop(p, 1) ELSE p

(* str::split('/') collected into a Vec: each step of the iterator yields  *)
(* the text up to the next '/' and continues after it; the text after the  *)
(* last '/' (possibly empty) is the last component, so the result is never *)
(* empty.                                                                  *)
next_slash(s) ==
    LET at == {i \in 1..Len(s) : s[i] = "/"}
    IN  IF at = {} THEN 0 ELSE CHOOSE i \in at : \A j \in at : i <= j

RECURSIVE split(_)
split(s) ==
    LET n == next_slash(s)
    IN  IF n = 0 THEN <<s>>
        ELSE <<SubSeq(s, 1, n - 1)>> \o split(Drop(s, n))

----------------------------------------------------------------------------
(* route/param_type.rs *)

check_str(s) == TRUE

(* uuid::Uuid::try_parse: 32 hex digits, or the hyphenated 8-4-4-4-12     *)
(* form, bare (36), in braces (38) or after "urn:uuid:" (45).              *)
parse_simple(s) == \A i \in 1..Len(s) : is_hex_digit(s[i])

parse_hyphenated(s) ==
    /\ Len(s) = 36
    /\ \A i \in 1..36 :
          IF i \in {9, 14, 19, 24} THEN s[i] = "-" ELSE is_hex_digit(s[i])

UrnPrefix == <<"u", "r", "n", ":", "u", "u", "i", "d", ":">>

check_uuid(s) ==
    CASE Len(s) = 32 -> parse_simple(s)
      [] Len(s) = 36 -> parse_hyphenated(s)
      [] Len(s) = 38 -> /\ s[1] = "{"
                        /\ s[38] = "}"
                        /\ parse_hyphenated(SubSeq(s, 2, 37))
      [] Len(s) = 45 -> /\ starts_with(s, UrnPrefix)
                        /\ parse_hyphenated(Drop(s, 9))
      [] OTHER -> FALSE

(* str::parse::<i64>: an optional sign, then one or more decimal digits    *)
(* whose value fits in 64 bits.  The value is compared digit by digit with *)
(* the i64 limits, since it does not fit a model integer.                  *)
I64MaxDigits == <<"9", "2", "2", "3", "3", "7", "2", "0", "3", "6",
                  "8", "5", "4", "7", "7", "5", "8", "0", "7">>

I64MinDigits == <<"9", "2", "2", "3", "3", "7", "2", "0", "3", "6",
                  "8", "5", "4", "7", "7", "5", "8", "0", "8">>

RECURSIVE strip_zeros(_)
strip_zeros(d) ==
    IF d # <<>> /\ Head(d) = "0" THEN strip_zeros(Tail(d)) ELSE d

RECURSIVE digits_leq(_, _)
digits_leq(a, b) ==
    IF a = <<>> THEN TRUE
    ELSE IF to_digit(Head(a)) < to_digit(Head(b)) THEN TRUE
    ELSE IF to_digit(Head(a)) > to_digit(Head(b)) THEN FALSE
    ELSE digits_leq(Tail(a), Tail(b))

fits_i64(digits, limit) ==
    LET d == strip_zeros(digits)
    IN  \/ Len(d) < Len(limit)
        \/ Len(d) = Len(limit) /\ digits_leq(d, limit)

check_int(s) ==
    IF s = <<>> THEN FALSE
    ELSE IF s = <<"+">> \/ s = <<"-">> THEN FALSE
    ELSE LET negative == Head(s) = "-"
             digits == IF Head(s) \in {"+", "-"} THEN Tail(s) ELSE s
         IN  /\ \A i \in 1..Len(digits) : is_ascii_digit(digits[i])
             /\ fits_i64(digits, IF negative THEN I64MinDigits
                                             ELSE I64MaxDigits)

STRING_PARAM ==
    [typename |-> <<"s", "t", "r", "i", "n", "g">>, check |-> "check_str"]

UUID_PARAM == [typename |-> <<"u", "u", "i", "d">>, check |-> "check_uuid"]

INT_PARAM == [typename |-> <<"i", "n", "t">>, check |-> "check_int"]

(* the call (p.kind.check)(part) through the function pointer *)
call_check(kind, s) ==
    CASE kind.check = "check_str" -> check_str(s)
      [] kind.check = "check_uuid" -> check_uuid(s)
      [] kind.check = "check_int" -> check_int(s)

(* a ParamMap is modelled as the set of its values, keyed by typename *)
DEFAULT_PARAM_TYPES == {STRING_PARAM, UUID_PARAM, INT_PARAM}

ParamMap_get(m, k) ==
    IF \E t \in m : t.typename = k
    THEN Some(CHOOSE t \in m : t.typename = k)
    ELSE None

----------------------------------------------------------------------------
(* route.rs: data model *)

Empty == [tag |-> "Empty"]

Constant(s) == [tag |-> "Constant", s |-> s]

Param(name, kind) == [tag |-> "Param", name |-> name, kind |-> kind]

Route(name, segments) == [name |-> name, path |-> segments]

----------------------------------------------------------------------------
(* route/parse.rs: nom combinators.  A parser result is                    *)
(* [ok |-> TRUE, rest, val] or the recoverable nom error                   *)
(* [ok |-> FALSE, input, code].                                            *)

POk(rest, val) == [ok |-> TRUE, rest |-> rest, val |-> val]

make_error(input) == [ok |-> FALSE, input |-> input, code |-> "Tag"]

tag(t, input) ==
    IF starts_with(input, t) THEN POk(Drop(input, Len(t)), t)
    ELSE make_error(input)

Chars ==
    Lower \cup Upper \cup {DigitChars[i] : i \in 1..10}
          \cup {"-", "_", "/", "<", ">", ":", "+", "{", "}"}

urlsafe_char(c) == is_ascii_alphanumeric(c) \/ c = "-" \/ c = "_"

is_alpha(c) == is_ascii_alphabetic(c)

(* the characters a predicate accepts, for the take_while combinators *)
UrlsafeChars == {c \in Chars : urlsafe_char(c)}

AlphaChars == {c \in Chars : is_alpha(c)}

(* length of the longest prefix of input made of accepted characters *)
prefix_len(accepted, input) ==
    LET bad == {i \in 1..Len(input) : input[i] \notin accepted}
    IN  IF bad = {} THEN Len(input)
        ELSE (CHOOSE i \in bad : \A j \in bad : i <= j) - 1

take(n, input) == POk(Drop(input, n), SubSeq(input, 1, n))

take_while1_at(n, input) ==
    IF n = 0 THEN [ok |-> FALSE, input |-> input, code |-> "TakeWhile1"]
    ELSE take(n, input)

take_while1(accepted, input) ==
    take_while1_at(prefix_len(accepted, input), input)

take_while_m_n_at(m, n, k, input) ==
    IF k < m THEN [ok |-> FALSE, input |-> input, code |-> "TakeWhileMN"]
    ELSE take(IF k > n THEN n ELSE k, input)

take_while_m_n(m, n, accepted, input) ==
    take_while_m_n_at(m, n, prefix_len(accepted, input), input)

urlsafe_str(input) == take_while1(UrlsafeChars, input)

(* recognize(pair(a, b)): b runs on what a left, and the value is the text *)
(* the pair consumed                                                       *)
identifier_rest(input, b) ==
    IF ~b.ok THEN b
    ELSE POk(b.rest, SubSeq(input, 1, Len(input) - Len(b.rest)))

identifier_first(input, a) ==
    IF ~a.ok THEN a ELSE identifier_rest(input, urlsafe_str(a.rest))

identifier(input) ==
    identifier_first(input, take_while_m_n(1, 1, AlphaChars, input))

constant_of(r) == IF ~r.ok THEN r ELSE POk(r.rest, Constant(r.val))

constant(input) == constant_of(urlsafe_str(input))

empty_of(r) == IF ~r.ok THEN r ELSE POk(r.rest, Empty)

empty(input) == empty_of(tag(<<>>, input))

(* Parser::param, one definition per statement; each receives the results  *)
(* of the statements before it                                             *)
param_done(name, kind, gt) ==
    IF ~gt.ok THEN gt ELSE POk(gt.rest, Param(name.val, kind.val))

param_gt(name, kind, param_type) ==
    IF ~param_type.some THEN make_error(kind.rest)
    ELSE param_done(name, param_type, tag(<<">">>, kind.rest))

param_lookup(param_types, name, kind) ==
    IF ~kind.ok THEN kind
    ELSE param_gt(name, kind, ParamMap_get(param_types, kind.val))

param_kind(param_types, name, colon) ==
    IF ~colon.ok THEN colon
    ELSE param_lookup(param_types, name, urlsafe_str(colon.rest))

param_colon(param_types, name) ==
    IF ~name.ok THEN name
    ELSE param_kind(param_types, name, tag(<<":">>, name.rest))

param_name(param_types, lt) ==
    IF ~lt.ok THEN lt ELSE param_colon(param_types, identifier(lt.rest))

param(param_types, input) == param_name(param_types, tag(<<"<">>, input))

(* alt((param, constant, empty)): the first alternative that succeeds *)
alt_empty(input, c) == IF c.ok THEN c ELSE empty(input)

alt_constant(input, p) == IF p.ok THEN p ELSE alt_empty(input, constant(input))

segment(param_types, input) == alt_constant(input, param(param_types, input))

(* separated_list0(tag("/"), segment): a first element, then separator and *)
(* element until either fails; a separator that consumes nothing is an     *)
(* error                                                                   *)
RECURSIVE separated_list0_loop(_, _, _)
separated_list0_elem(param_types, i, res, o) ==
    IF ~o.ok THEN POk(i, res)
    ELSE separated_list0_loop(param_types, o.rest, Append(res, o.val))

separated_list0_sep(param_types, i, res, sep) ==
    IF ~sep.ok THEN POk(i, res)
    ELSE IF Len(sep.rest) = Len(i)
    THEN [ok |-> FALSE, input |-> sep.rest, code |-> "SeparatedList"]
    ELSE separated_list0_elem(param_types, i, res,
                              segment(param_types, sep.rest))

separated_list0_loop(param_types, i, res) ==
    separated_list0_sep(param_types, i, res, tag(<<"/">>, i))

separated_list0_first(param_types, i, o) ==
    IF ~o.ok THEN POk(i, <<>>)
    ELSE separated_list0_loop(param_types, o.rest, <<o.val>>)

separated_list0(param_types, i) ==
    separated_list0_first(param_types, i, segment(param_types, i))

parse_route_list(param_types, slash) ==
    IF ~slash.ok THEN slash ELSE separated_list0(param_types, slash.rest)

parse_route(param_types, input) ==
    parse_route_list(param_types, tag(<<"/">>, input))

ExtraInput(segments, remainder) ==
    [kind |-> "ExtraInput", segments |-> segments, remainder |-> remainder]

Other(e) == [kind |-> "Other", input |-> e.input, code |-> e.code]

(* Parser::default() *)
Parser_default == [param_types |-> DEFAULT_PARAM_TYPES]

(* the match of Parser::route on the result of parse_route *)
route_match(name, r) ==
    IF r.ok /\ r.rest = <<>> THEN Ok(Route(name, r.val))
    ELSE IF r.ok THEN Err(ExtraInput(r.val, r.rest))
    ELSE Err(Other(r))

(* Parser::route *)
route(self, name, p) == route_match(name, parse_route(self.param_types, p))

----------------------------------------------------------------------------
(* route.rs: Route::check, Route::parse_params, Route::fill *)

(* the for loop of check over parts.iter().zip(self.path.iter()) *)
RECURSIVE check_zip(_, _)
check_zip(parts, segs) ==
    IF parts = <<>> \/ segs = <<>> THEN TRUE
    ELSE LET part == Head(parts)
             seg == Head(segs)
             mismatch ==
                 CASE seg.tag = "Empty" -> part # <<>>
                   [] seg.tag = "Constant" -> part # seg.s
                   [] seg.tag = "Param" -> ~call_check(seg.kind, part)
         IN  IF mismatch THEN FALSE
             ELSE check_zip(Tail(parts), Tail(segs))

(* check without the comparison of the two lengths *)
check_no_len(self, p) ==
    LET clean_path == strip_prefix(p)
        parts == split(clean_path)
    IN  check_zip(parts, self.path)

(* check that splits the path as given, leading '/' included *)
check_no_strip(self, p) ==
    LET parts == split(p)
    IN  IF Len(parts) # Len(self.path) THEN FALSE
        ELSE check_zip(parts, self.path)

check(self, p) ==
    LET clean_path == strip_prefix(p)
        parts == split(clean_path)
    IN  IF Len(parts) # Len(self.path) THEN FALSE
        ELSE check_zip(parts, self.path)

(* the for loop of parse_params, pushing the text found at Param slots *)
RECURSIVE parse_params_zip(_, _, _)
parse_params_zip(parts, segs, params) ==
    IF parts = <<>> \/ segs = <<>> THEN Some(params)
    ELSE LET part == Head(parts)
             seg == Head(segs)
         IN  CASE seg.tag = "Empty" ->
                    IF part # <<>> THEN None
                    ELSE parse_params_zip(Tail(parts), Tail(segs), params)
               [] seg.tag = "Constant" ->
                    IF part # seg.s THEN None
                    ELSE parse_params_zip(Tail(parts), Tail(segs), params)
               [] seg.tag = "Param" ->
                    parse_params_zip(Tail(parts), Tail(segs),
                                     Append(params, part))

(* parse_params that splits the path as given, leading '/' included *)
parse_params_no_strip(self, p) ==
    LET parts == split(p)
    IN  IF Len(parts) # Len(self.path) THEN None
        ELSE parse_params_zip(parts, self.path, <<>>)

parse_params(self, p) ==
    LET clean_path == strip_prefix(p)
        parts == split(clean_path)
    IN  IF Len(parts) # Len(self.path) THEN None
        ELSE parse_params_zip(parts, self.path, <<>>)

(* the loop of fill without the final test for unused values *)
RECURSIVE fill_loop_no_surplus(_, _, _, _)
fill_loop_no_surplus(segs, params, acc, index) ==
    IF segs = <<>> THEN Some(acc)
    ELSE LET seg == Head(segs)
             pushed == Append(acc, "/")
         IN  CASE seg.tag = "Empty" ->
                    fill_loop_no_surplus(Tail(segs), params, pushed, index)
               [] seg.tag = "Constant" ->
                    fill_loop_no_surplus(Tail(segs), params,
                                         pushed \o seg.s, index)
               [] seg.tag = "Param" ->
                    IF index >= Len(params) THEN None
                    ELSE fill_loop_no_surplus(Tail(segs), params,
                                              pushed \o params[index + 1],
                                              index + 1)

(* the for loop of fill; index counts from 0 as in the code *)
RECURSIVE fill_loop(_, _, _, _)
fill_loop(segs, params, acc, index) ==
    IF segs = <<>>
    THEN IF index < Len(params) THEN None ELSE Some(acc)
    ELSE LET seg == Head(segs)
             pushed == Append(acc, "/")
         IN  CASE seg.tag = "Empty" ->
                    fill_loop(Tail(segs), params, pushed, index)
               [] seg.tag = "Constant" ->
                    fill_loop(Tail(segs), params, pushed \o seg.s, index)
               [] seg.tag = "Param" ->
                    IF index >= Len(params) THEN None
                    ELSE fill_loop(Tail(segs), params,
                                   pushed \o params[index + 1], index + 1)

(* fill that closes the path with one more '/' *)
fill_closing_slash(self, params) ==
    LET r == fill_loop(self.path, params, <<>>, 0)
    IN  IF r.some THEN Some(Append(r.val, "/")) ELSE r

fill(self, params) == fill_loop(self.path, params, <<>>, 0)

----------------------------------------------------------------------------
(* lib.rs: Routes *)

Routes_new == <<>>

add(self, r) == Append(self, r)

(* self.routes.iter().find(|route| route.check(path)) *)
RECURSIVE find_from(_, _, _)
find_from(self, i, p) ==
    IF i > Len(self) THEN None
    ELSE IF check(self[i], p) THEN Some(self[i])
    ELSE find_from(self, i + 1, p)

(* find that keeps the last matching route instead of the first *)
find_last(self, p) ==
    LET m == {i \in 1..Len(self) : check(self[i], p)}
    IN  IF m = {} THEN None
        ELSE Some(self[CHOOSE i \in m : \A j \in m : j <= i])

find(self, p) == find_from(self, 1, p)

----------------------------------------------------------------------------
(* Inputs *)

MaxSegs == 2

MaxNameLen == 2

MaxParts == 4

MaxValues == 3

MaxRoutes == 3

SeqsUpTo(S, n) == UNION {[1..k -> S] : k \in 1..n}

RECURSIVE join(_)
join(parts) ==
    IF Len(parts) = 1 THEN parts[1]
    ELSE parts[1] \o <<"/">> \o join(Tail(parts))

Placeholder(n, t) == <<"<">> \o n \o <<":">> \o t \o <<">">>

str_user == <<"u", "s", "e", "r">>

str_club == <<"c", "l", "u", "b">>

str_game == <<"g", "a", "m", "e">>

str_profile == <<"p", "r", "o", "f", "i", "l", "e">>

str_id == <<"i", "d">>

str_profile_id == <<"p", "r", "o", "f", "i", "l", "e", "_", "i", "d">>

str_slug == <<"s", "l", "u", "g">>

str_not_a_type == <<"n", "o", "t", "_", "a", "_", "t", "y", "p", "e">>

str_123 == <<"1", "2", "3">>

str_abc == <<"a", "b", "c">>

str_a_slash_b == <<"a", "/", "b">>

str_uuid == <<"3", "6", "b", "e", "8", "7", "0", "5", "-",
              "6", "c", "3", "1", "-", "4", "5", "d", "7", "-",
              "9", "3", "2", "1", "-",
              "d", "5", "6", "c", "c", "0", "7", "b", "5", "0", "d", "9">>

TypeNames == {t.typename : t \in DEFAULT_PARAM_TYPES}

(* the texts between the slashes of the generated templates *)
SegTexts ==
    {<<>>, str_user, <<"<">> \o str_slug \o <<">">>,
     Placeholder(str_id, str_not_a_type)}
    \cup {Placeholder(str_id, t) : t \in TypeNames}

(* parameter names of the generated one-placeholder templates *)
NameChars == {"x", "1", "-", "_"}

Names == SeqsUpTo(NameChars, MaxNameLen)

T_root == <<"/">>

T_user == <<"/">> \o join(<<str_user, Placeholder(str_id, INT_PARAM.typename),
                           <<>> >>)

T_club == <<"/">> \o join(<<str_club, Placeholder(str_id, UUID_PARAM.typename),
                           <<>> >>)

T_game == <<"/">> \o join(<<str_game, <<"<">> \o str_slug \o <<">">>, <<>> >>)

T_game_string ==
    <<"/">> \o join(<<str_game, Placeholder(str_slug, STRING_PARAM.typename),
                      <<>> >>)

T_unknown == <<"/">> \o join(<<<<"x">>, Placeholder(str_id, str_not_a_type),
                              <<>> >>)

T_long ==
    <<"/">> \o join(<<str_user, Placeholder(str_id, INT_PARAM.typename),
                      str_profile,
                      Placeholder(str_profile_id, UUID_PARAM.typename)>>)

Templates ==
    {<<"/">> \o join(segs) : segs \in SeqsUpTo(SegTexts, MaxSegs)}
    \cup {<<"/">> \o Placeholder(n, t) : n \in Names, t \in TypeNames}
    \cup {T_root, T_user, T_club, T_game, T_game_string, T_unknown, T_long}
    \cup {<<>>, str_user, Placeholder(str_id, INT_PARAM.typename)}

RouteNames == {"user-route"}

PathComps == {<<>>, str_user, str_123, str_abc, str_uuid}

Paths == {join(parts) : parts \in SeqsUpTo(PathComps, MaxParts)}

ValueComps == {<<>>, str_123, str_a_slash_b, str_uuid}

ValueLists == {<<>>} \cup SeqsUpTo(ValueComps, MaxValues)

(* the routes of test_routes, with the untyped <slug> given its type, and  *)
(* a second pattern that overlaps the first                                *)
RouteInputs ==
    {route(Parser_default, "user-by-id", T_user).val,
     route(Parser_default, "user-any",
           <<"/">> \o join(<<str_user,
                             Placeholder(str_id, STRING_PARAM.typename),
                             <<>> >>)).val,
     route(Parser_default, "club-by-id", T_club).val,
     route(Parser_default, "game", T_game_string).val}

FindPaths ==
    {join(<<<<>>, c, p, <<>> >>) :
         c \in {str_user, str_club, str_game},
         p \in {<<>>, str_123, str_abc, str_uuid}}
    \cup {join(<<<<>>, str_game, str_123>>), <<"/">>, <<>>}

----------------------------------------------------------------------------
(* The state machine.  pc = "start" is a fresh program.  One behaviour     *)
(* either compiles a template and applies one Route operation to the       *)
(* result, or builds a Routes collection and queries it.  template, path   *)
(* and values hold the arguments of the last calls and out the last        *)
(* return value.                                                           *)

Init ==
    /\ pc = "start"
    /\ template = <<>>
    /\ compiled = None
    /\ path = <<>>
    /\ values = <<>>
    /\ out = None
    /\ routes = Routes_new

Compile ==
    /\ pc = "start"
    /\ \E name \in RouteNames, t \in Templates :
           /\ template' = t
           /\ compiled' = route(Parser_default, name, t)
    /\ pc' = "compiled"
    /\ UNCHANGED <<path, values, out, routes>>

Check ==
    /\ pc = "compiled"
    /\ compiled.ok
    /\ \E p \in Paths :
           /\ path' = p
           /\ out' = check(compiled.val, p)
    /\ pc' = "checked"
    /\ UNCHANGED <<template, compiled, values, routes>>

ParseParams ==
    /\ pc = "compiled"
    /\ compiled.ok
    /\ \E p \in Paths :
           /\ path' = p
           /\ out' = parse_params(compiled.val, p)
    /\ pc' = "parsed"
    /\ UNCHANGED <<template, compiled, values, routes>>

Fill ==
    /\ pc = "compiled"
    /\ compiled.ok
    /\ \E v \in ValueLists :
           /\ values' = v
           /\ out' = fill(compiled.val, v)
    /\ pc' = "filled"
    /\ UNCHANGED <<template, compiled, path, routes>>

Add ==
    /\ pc \in {"start", "routes", "found"}
    /\ Len(routes) < MaxRoutes
    /\ \E r \in RouteInputs : routes' = add(routes, r)
    /\ path' = <<>>
    /\ out' = None
    /\ pc' = "routes"
    /\ UNCHANGED <<template, compiled, values>>

Find ==
    /\ pc \in {"start", "routes", "found"}
    /\ \E p \in FindPaths :
           /\ path' = p
           /\ out' = find(routes, p)
    /\ pc' = "found"
    /\ UNCHANGED <<template, compiled, values, routes>>

Next ==
    \/ Compile
    \/ Check
    \/ ParseParams
    \/ Fill
    \/ Add
    \/ Find

Spec == Init /\ [][Next]_vars

TypeOK ==
    /\ pc \in {"start", "compiled", "checked", "parsed", "filled",
               "routes", "found"}
    /\ Len(routes) <= MaxRoutes

----------------------------------------------------------------------------
(* Properties *)

NumParams(r) == Cardinality({i \in 1..Len(r.path) : r.path[i].tag = "Param"})

SlashAt(s) == {i \in 1..Len(s) : s[i] = "/"}

(* position of the k-th '/' of s; 0 before the first, Len(s)+1 past the last *)
KthSlash(s, k) ==
    IF k = 0 THEN 0
    ELSE IF k > Cardinality(SlashAt(s)) THEN Len(s) + 1
    ELSE CHOOSE i \in SlashAt(s) : Cardinality({j \in SlashAt(s) : j <= i}) = k

(* the k-th '/'-delimited component of s *)
Component(s, k) == SubSeq(s, KthSlash(s, k - 1) + 1, KthSlash(s, k) - 1)

Satisfies(c, seg) ==
    CASE seg.tag = "Empty" -> c = <<>>
      [] seg.tag = "Constant" -> c = seg.s
      [] seg.tag = "Param" -> call_check(seg.kind, c)

Matches(r, p) ==
    LET s == IF p # <<>> /\ p[1] = "/" THEN SubSeq(p, 2, Len(p)) ELSE p
        n == Cardinality(SlashAt(s)) + 1
    IN  /\ n = Len(r.path)
        /\ \A k \in 1..n : Satisfies(Component(s, k), r.path[k])

(* C1: check(path) is true exactly when, after stripping at most one       *)
(* leading '/', the path has as many '/'-separated components as the route *)
(* has segments and every component satisfies its segment.                 *)
C1_CheckContract == pc = "checked" => out = Matches(compiled.val, path)

C1_Witness == pc = "checked" /\ template = T_user /\ out = TRUE

(* C2: check(path) is true if and only if parse_params(path) is Some, and  *)
(* a Some result has one entry per Param segment.                          *)
C2_MatchExtractConsistent ==
    pc = "parsed" =>
        /\ out.some <=> check(compiled.val, path)
        /\ out.some => Len(out.val) = NumParams(compiled.val)

FirstMatch(rs, p) ==
    LET m == {i \in 1..Len(rs) : check(rs[i], p)}
    IN  IF m = {} THEN None
        ELSE Some(rs[CHOOSE i \in m : \A j \in m : i <= j])

(* C3: find returns the earliest-added route that matches the path, None   *)
(* exactly when no added route matches, and add only appends.              *)
C3_FirstMatch ==
    /\ [](pc = "found" => out = FirstMatch(routes, path))
    /\ [][routes' # routes =>
            /\ Len(routes') = Len(routes) + 1
            /\ SubSeq(routes', 1, Len(routes)) = routes]_vars

C3_Witness ==
    /\ pc = "found"
    /\ Len(routes) >= 2
    /\ routes[1] # routes[2]
    /\ check(routes[1], path)
    /\ check(routes[2], path)
    /\ out = Some(routes[1])

HasUnknownTypePlaceholder(t) ==
    \E k \in 1..(Cardinality(SlashAt(t)) + 1) :
        Component(t, k) = Placeholder(str_id, str_not_a_type)

(* C4: a template with a well-formed placeholder of unregistered type does *)
(* not compile and fails with ParseError::Other, not ExtraInput.           *)
C4_UnknownTypeIsOther ==
    pc = "compiled" /\ HasUnknownTypePlaceholder(template) =>
        ~compiled.ok /\ compiled.err.kind = "Other"

(* C5: fill returns None if and only if the number of values differs from  *)
(* the number of Param segments.                                           *)
C5_FillArity ==
    pc = "filled" => (out = None <=> Len(values) # NumParams(compiled.val))

C5_Witness ==
    pc = "filled" /\ Len(values) > NumParams(compiled.val) /\ out = None

AllParams(r) == \A i \in 1..Len(r.path) : r.path[i].tag = "Param"

ValidValues(r, v) ==
    /\ Len(v) = NumParams(r)
    /\ \A i \in 1..Len(v) : call_check(r.path[i].kind, v[i])

NoSlash(v) == \A i \in 1..Len(v) : SlashAt(v[i]) = {}

(* C6 as stated: for a route of only Param segments and a list of values   *)
(* valid for their types, parse_params(fill(values)) is Some(values).      *)
C6_RoundTrip_Stated ==
    pc = "filled" /\ AllParams(compiled.val)
                  /\ ValidValues(compiled.val, values) =>
        out.some /\ parse_params(compiled.val, out.val) = Some(values)

(* C6: for a route of only Param segments and a list of values valid for   *)
(* their types, none of which contains '/', parse_params(fill(values)) is  *)
(* Some(values).                                                           *)
C6_RoundTrip ==
    pc = "filled" /\ AllParams(compiled.val)
                  /\ ValidValues(compiled.val, values)
                  /\ NoSlash(values) =>
        out.some /\ parse_params(compiled.val, out.val) = Some(values)

C6_Witness ==
    /\ pc = "filled"
    /\ AllParams(compiled.val)
    /\ ValidValues(compiled.val, values)
    /\ NoSlash(values)
    /\ Len(values) = 2
    /\ values[1] # values[2]

(* C7 as stated: "/" compiles to [Empty] and matches only the path "/".    *)
C7_Root_Stated ==
    pc = "checked" /\ template = T_root =>
        /\ compiled.val.path = <<Empty>>
        /\ out <=> path = <<"/">>

(* C7: "/" compiles to [Empty] and matches exactly the path "/" and the    *)
(* empty path.                                                             *)
C7_Root ==
    pc = "checked" /\ template = T_root =>
        /\ compiled.val.path = <<Empty>>
        /\ out <=> path \in {<<"/">>, <<>>}

C7_Witness == pc = "checked" /\ template = T_root /\ path = <<"/">> /\ out

P_game(c) == join(<<<<>>, str_game, c, <<>> >>)

(* C8: "/game/<slug>/" compiles to a route that matches "/game/123/",      *)
(* "/game//" and "/game/abc/" and rejects "/game/123".                     *)
C8_UntypedPlaceholder ==
    pc = "compiled" /\ template = T_game =>
        /\ compiled.ok
        /\ check(compiled.val, P_game(str_123))
        /\ check(compiled.val, P_game(<<>>))
        /\ check(compiled.val, P_game(str_abc))
        /\ ~check(compiled.val, join(<<<<>>, str_game, str_123>>))

FilledLong(v1, v2) == join(<<<<>>, str_user, v1, str_profile, v2>>)

(* C9 as stated: the route of "/user/<id:int>/profile/<profile_id:uuid>"   *)
(* fills two values to "/user/v1/profile/v2/" and one or three to None.    *)
C9_FillLong_Stated ==
    pc = "filled" /\ template = T_long =>
        /\ Len(values) = 2 =>
               out = Some(Append(FilledLong(values[1], values[2]), "/"))
        /\ Len(values) \in {1, 3} => out = None

(* C9: the route of "/user/<id:int>/profile/<profile_id:uuid>" fills two   *)
(* values to "/user/v1/profile/v2", with no trailing slash, and one or     *)
(* three values to None.                                                   *)
C9_FillLong ==
    pc = "filled" /\ template = T_long =>
        /\ Len(values) = 2 => out = Some(FilledLong(values[1], values[2]))
        /\ Len(values) \in {1, 3} => out = None

C9_Witness ==
    pc = "filled" /\ template = T_long /\ Len(values) = 2 /\ out.some

(* the identifier grammar: alpha_char urlsafe_char* *)
GrammarIdentifier(n) ==
    /\ n # <<>>
    /\ is_ascii_alphabetic(n[1])
    /\ \A i \in 2..Len(n) : urlsafe_char(n[i])

(* C10: "/<n:t>" compiles to the single segment Param(n, t) when n is a    *)
(* letter followed by zero or more urlsafe characters and t is registered, *)
(* and does not compile when n starts with a digit, '-' or '_'.            *)
C10_IdentifierGrammar ==
    pc = "compiled" =>
        \A n \in Names, t \in DEFAULT_PARAM_TYPES :
            template = <<"/">> \o Placeholder(n, t.typename) =>
                IF GrammarIdentifier(n)
                THEN compiled.ok /\ compiled.val.path = <<Param(n, t)>>
                ELSE ~compiled.ok

====
